---------------------------- MODULE Spec2Model ----------------------------
(***************************************************************************)
(* Model of sing-box/compile-rules.ts: the token classifier and the        *)
(* normalizers (pure functions over strings), and the run of main(): the   *)
(* loop over the rule declarations that fills one accumulator per          *)
(* outbound, then the loop over the accumulators that deduplicates each    *)
(* one and hands it to generateSrs.                                        *)
(*                                                                         *)
(* A string is a sequence of one-character strings: "1.1/8" is             *)
(* <<"1", ".", "1", "/", "8">>.  The empty sequence is the empty string,   *)
(* which is falsy like an absent field of a rule.                          *)
(***************************************************************************)
EXTENDS Integers, Sequences, FiniteSets, TLC

VARIABLES
    \* ---- the run of main() ----
    config,      \* config.rules: the parsed rule declarations (read-only)
    pc,          \* where main() is
    ruleIdx,     \* index of the rule the first loop is at
    entryIdx,    \* index of the entry of rule.list the inner loop is at
    outbounds,   \* the Map outbound -> OutboundData, in insertion order
    emitIdx,     \* index of the Map entry the second loop is at
    loads,       \* the sources readLines was called with, in call order
    jsonFiles,   \* the rule-set documents written, in write order
    compiles,    \* the compiler invocations, in call order, with their outcome
    skips,       \* the outbounds generateSrs skipped ("no rules")
    deduped,     \* the outbounds whose lists were deduplicated, in order
    \* ---- one call of a pure function ----
    fn,          \* the function called last ("none" before any call)
    arg,         \* its argument
    prev,        \* the function whose result the argument is ("input" if none)
    ret,         \* its result when it returns a string
    verdict      \* its result when it returns a boolean

mainVars == <<config, pc, ruleIdx, entryIdx, outbounds, emitIdx, loads,
              jsonFiles, compiles, skips, deduped>>
fnVars == <<fn, arg, prev, ret, verdict>>
vars == <<mainVars, fnVars>>

-----------------------------------------------------------------------------
(* Bounds of the model. *)

\* longest string over DomainAlphabet given to a function
MaxDomainLen == 4
\* longest tail over TailAlphabet appended to an address of AddressPool
MaxTailLen == 4
\* most rule declarations in a config
MaxRules == 2

-----------------------------------------------------------------------------
(* String primitives of JavaScript used by the program. *)

Whitespace == {" ", "\t", "\n", "\r"}
Digits == {"0", "1", "2", "3", "4", "5", "6", "7", "8", "9"}
HexDigits == Digits \cup {"a", "b", "c", "d", "e", "f", "A", "B", "C", "D", "E", "F"}
UpperCase == <<"A", "B", "C", "D", "E", "F", "G", "H", "I", "J", "K", "L", "M",
               "N", "O", "P", "Q", "R", "S", "T", "U", "V", "W", "X", "Y", "Z">>
LowerCase == <<"a", "b", "c", "d", "e", "f", "g", "h", "i", "j", "k", "l", "m",
               "n", "o", "p", "q", "r", "s", "t", "u", "v", "w", "x", "y", "z">>

\* String.prototype.trim
RECURSIVE TrimStart(_)
TrimStart(s) ==
    IF s # <<>> /\ Head(s) \in Whitespace THEN TrimStart(Tail(s)) ELSE s

RECURSIVE TrimEnd(_)
TrimEnd(s) ==
    IF s # <<>> /\ s[Len(s)] \in Whitespace
    THEN TrimEnd(SubSeq(s, 1, Len(s) - 1))
    ELSE s

Trim(s) == TrimEnd(TrimStart(s))

\* String.prototype.toLowerCase
ToLowerChar(c) ==
    IF \E i \in 1..26 : UpperCase[i] = c
    THEN LowerCase[CHOOSE i \in 1..26 : UpperCase[i] = c]
    ELSE c

RECURSIVE ToLowerCase(_)
ToLowerCase(s) ==
    IF s = <<>> THEN <<>> ELSE <<ToLowerChar(Head(s))>> \o ToLowerCase(Tail(s))

\* String.prototype.startsWith
StartsWith(s, p) == Len(s) >= Len(p) /\ SubSeq(s, 1, Len(p)) = p

\* String.prototype.slice(n)
Slice(s, n) == SubSeq(s, n + 1, Len(s))

\* String.prototype.includes, for a one-character needle
Includes(s, c) == \E i \in 1..Len(s) : s[i] = c

\* String.prototype.split(sep), for a one-character separator: every piece
\* between separators, the empty ones too; "" splits into one empty piece
RECURSIVE Split(_, _)
Split(s, sep) ==
    IF ~Includes(s, sep)
    THEN <<s>>
    ELSE LET i == CHOOSE k \in 1..Len(s) :
                      s[k] = sep /\ \A j \in 1..(k - 1) : s[j] # sep
         IN  <<SubSeq(s, 1, i - 1)>> \o Split(SubSeq(s, i + 1, Len(s)), sep)

\* String.prototype.split(sep, limit): the first `limit` pieces of the full
\* split; what follows them is dropped
SplitLimit(s, sep, limit) ==
    LET all == Split(s, sep)
    IN  IF Len(all) <= limit THEN all ELSE SubSeq(all, 1, limit)

\* /^\d+$/.test(s)
IsDigits(s) == s # <<>> /\ \A i \in 1..Len(s) : s[i] \in Digits

DigitValue(c) ==
    CASE c = "0" -> 0 [] c = "1" -> 1 [] c = "2" -> 2 [] c = "3" -> 3
      [] c = "4" -> 4 [] c = "5" -> 5 [] c = "6" -> 6 [] c = "7" -> 7
      [] c = "8" -> 8 [] c = "9" -> 9

\* Number(s) for s empty or made of decimal digits: Number("") is 0
RECURSIVE Number(_)
Number(s) ==
    IF s = <<>> THEN 0
    ELSE 10 * Number(SubSeq(s, 1, Len(s) - 1)) + DigitValue(s[Len(s)])

-----------------------------------------------------------------------------
(* The normalizers and the token classifier. *)

normalizeDomainSuffix(value) ==
    LET v  == ToLowerCase(Trim(value))
        v1 == IF StartsWith(v, <<"*", ".">>) THEN Slice(v, 2) ELSE v
    IN  IF StartsWith(v1, <<".">>) THEN Slice(v1, 1) ELSE v1

isIPv4(value) ==
    LET parts == Split(value, ".")
    IN  /\ Len(parts) = 4
        /\ \A i \in 1..4 :
              /\ IsDigits(parts[i])
              /\ Number(parts[i]) >= 0
              /\ Number(parts[i]) <= 255

isIPv6(value) ==
    /\ Includes(value, ":")
    /\ \A i \in 1..Len(value) : value[i] \in HexDigits \cup {":"}

normalizeCidrNoHostPrefix(value) == Trim(value)

normalizeCidr(value) ==
    LET v == Trim(value)
    IN  IF Includes(v, "/") THEN v
        ELSE IF isIPv4(v) THEN v \o <<"/", "3", "2">>
        ELSE IF isIPv6(v) THEN v \o <<"/", "1", "2", "8">>
        ELSE v

isIpOrCidr(value) ==
    LET v         == Trim(value)
        parts     == SplitLimit(v, "/", 2)
        ip        == parts[1]
        hasPrefix == Len(parts) = 2          \* prefix !== undefined
        prefix    == parts[2]
    IN  IF ip = <<>> THEN FALSE
        ELSE IF hasPrefix /\ prefix # <<>> /\ ~IsDigits(prefix) THEN FALSE
        ELSE IF isIPv4(ip)
             THEN IF ~hasPrefix THEN TRUE
                  ELSE Number(prefix) >= 0 /\ Number(prefix) <= 32
        ELSE IF isIPv6(ip)
             THEN IF ~hasPrefix THEN TRUE
                  ELSE Number(prefix) >= 0 /\ Number(prefix) <= 128
        ELSE FALSE

-----------------------------------------------------------------------------
(* The sources the Source Loader can reach: one text per file path and per  *)
(* URL.  A path of no file makes Bun.file(path).text() throw; a URL whose   *)
(* response is not ok makes readLines throw.                                *)

NL == <<"\n">>
Http == <<"h", "t", "t", "p", ":", "/", "/">>
Https == <<"h", "t", "t", "p", "s", ":", "/", "/">>

SrcDomains == <<"d", "o", "m">>                      \* "dom"
SrcSubnets == <<"s", "u", "b">>                      \* "sub"
SrcMixed   == <<".", "/", "m">>                      \* "./m"
UrlMixed   == Http \o <<"h">>                        \* "http://h"
UrlDown    == Https \o <<"g">>                       \* "https://g": not ok

Ip4        == <<"1", ".", "1", ".", "1", ".", "1">>  \* "1.1.1.1"
Ip4Other   == <<"2", ".", "2", ".", "2", ".", "2">>  \* "2.2.2.2"
Ip6Cidr    == <<":", ":", "1", "/", "6", "4">>       \* "::1/64"
Ip6        == <<":", ":", "1">>                      \* "::1"
DomWild    == <<"*", ".", "A", ".", "b">>            \* "*.A.b"
DomDot     == <<".", "a", ".", "b">>                 \* ".a.b"
DomPlain   == <<"a", ".", "b">>                      \* "a.b"
DomOther   == <<"c", ".", "d">>                      \* "c.d"

\* the text of each local file
TextDomains ==
    DomWild \o NL \o <<" ">> \o DomDot \o NL \o <<"#", "x">> \o NL \o NL \o DomPlain
TextSubnets ==
    Ip4 \o NL \o Ip6Cidr \o <<" ">> \o NL \o DomPlain \o NL
TextMixed ==
    SrcMixed \o NL \o UrlMixed \o NL \o Ip4Other \o NL \o Ip4 \o <<"/">> \o NL
        \o <<"#">> \o NL \o DomOther
\* the body of the one URL that answers
TextUrl ==
    Ip6 \o NL \o DomOther \o NL \o Ip4 \o <<"/", "8", "/", "x">>

\* await fetch(source): response.ok and response.text()
Fetch(url) ==
    IF url = UrlMixed THEN [ok |-> TRUE, text |-> TextUrl]
    ELSE [ok |-> FALSE, text |-> <<>>]

\* await Bun.file(join(baseDir, source)).text(): throws when there is no file
BunFileText(path) ==
    CASE path = SrcDomains -> [ok |-> TRUE, text |-> TextDomains]
      [] path = SrcSubnets -> [ok |-> TRUE, text |-> TextSubnets]
      [] path = SrcMixed   -> [ok |-> TRUE, text |-> TextMixed]
      [] OTHER             -> [ok |-> FALSE, text |-> <<>>]

RECURSIVE MapTrim(_)
MapTrim(ls) ==
    IF ls = <<>> THEN <<>> ELSE <<Trim(Head(ls))>> \o MapTrim(Tail(ls))

RECURSIVE FilterLines(_)
FilterLines(ls) ==
    IF ls = <<>> THEN <<>>
    ELSE IF Head(ls) # <<>> /\ ~StartsWith(Head(ls), <<"#">>)
         THEN <<Head(ls)>> \o FilterLines(Tail(ls))
         ELSE FilterLines(Tail(ls))

\* readLines: [ok |-> FALSE] stands for the rejected promise (the throw)
readLines(source) ==
    LET res == IF StartsWith(source, Http) \/ StartsWith(source, Https)
               THEN Fetch(source)
               ELSE BunFileText(source)
    IN  IF ~res.ok
        THEN [ok |-> FALSE, lines |-> <<>>]
        ELSE [ok |-> TRUE, lines |-> FilterLines(MapTrim(Split(res.text, "\n")))]

-----------------------------------------------------------------------------
(* The rule declarations a config is drawn from. *)

Blank == <<" ">>

\* rule.list: a blank entry, an address, a wildcard domain, a nested file
\* and a URL that answers
ListNested == <<Blank, Ip4, DomWild, SrcMixed, UrlMixed>>
\* rule.list: an address range, a URL that does not answer, a domain
ListDown == <<Ip6Cidr, UrlDown, DomPlain>>

OutboundKeys == {"direct", "proxy"}

RulePool ==
    [domains  : {<<>>, SrcDomains},
     subnets  : {<<>>, SrcSubnets},
     list     : {<<>>, ListNested, ListDown},
     outbound : OutboundKeys]

RECURSIVE SeqsOfLen(_, _)
SeqsOfLen(S, n) ==
    IF n = 0 THEN {<<>>}
    ELSE {<<x>> \o t : x \in S, t \in SeqsOfLen(S, n - 1)}

SeqsUpTo(S, n) == UNION {SeqsOfLen(S, k) : k \in 0..n}

Configs == SeqsUpTo(RulePool, MaxRules)

-----------------------------------------------------------------------------
(* The run of main(). *)

\* outbounds.has(key)
Has(map, key) == \E i \in 1..Len(map) : map[i].key = key

\* the place of key in the Map
IndexOf(map, key) == CHOOSE i \in 1..Len(map) : map[i].key = key

\* data.domains.push(...xs) on the entry of key
PushDomains(map, key, xs) ==
    [map EXCEPT ![IndexOf(map, key)].domains = @ \o xs]

\* data.subnets.push(...xs) on the entry of key
PushSubnets(map, key, xs) ==
    [map EXCEPT ![IndexOf(map, key)].subnets = @ \o xs]

RECURSIVE MapNormalizeDomainSuffix(_)
MapNormalizeDomainSuffix(ls) ==
    IF ls = <<>> THEN <<>>
    ELSE <<normalizeDomainSuffix(Head(ls))>> \o MapNormalizeDomainSuffix(Tail(ls))

RECURSIVE MapNormalizeCidr(_)
MapNormalizeCidr(ls) ==
    IF ls = <<>> THEN <<>>
    ELSE <<normalizeCidr(Head(ls))>> \o MapNormalizeCidr(Tail(ls))

addMixedEntrySkipsPaths(value, data) ==
    LET v == Trim(value)
    IN  IF v = <<>> THEN data
        ELSE IF isIpOrCidr(v)
             THEN [data EXCEPT !.subnets = Append(@, normalizeCidr(v))]
        ELSE IF Includes(v, "/") THEN data
        ELSE [data EXCEPT !.domains = Append(@, normalizeDomainSuffix(v))]

\* addMixedEntry(value, data), data given and returned as
\* [domains |-> ..., subnets |-> ...]
addMixedEntry(value, data) ==
    LET v == Trim(value)
    IN  IF v = <<>> THEN data
        ELSE IF isIpOrCidr(v)
             THEN [data EXCEPT !.subnets = Append(@, normalizeCidr(v))]
        ELSE [data EXCEPT !.domains = Append(@, normalizeDomainSuffix(v))]

\* for (const line of lines) addMixedEntry(line, data)
RECURSIVE AddMixedEntries(_, _)
AddMixedEntries(lines, data) ==
    IF lines = <<>> THEN data
    ELSE AddMixedEntries(Tail(lines), addMixedEntry(Head(lines), data))

DedupeAdjacent(xs) ==
    LET Keep(i) == i = 1 \/ xs[i] # xs[i - 1]
        F[i \in 0..Len(xs)] ==
            IF i = 0 THEN <<>>
            ELSE IF Keep(i) THEN Append(F[i - 1], xs[i]) ELSE F[i - 1]
    IN  F[Len(xs)]

\* [...new Set(xs)]: the first occurrence of each element, in order
RECURSIVE Dedupe(_)
Dedupe(xs) ==
    IF xs = <<>> THEN <<>>
    ELSE LET init == Dedupe(SubSeq(xs, 1, Len(xs) - 1))
             last == xs[Len(xs)]
         IN  IF \E i \in 1..Len(init) : init[i] = last
             THEN init
             ELSE Append(init, last)

Rule == config[ruleIdx]

Init ==
    /\ config \in Configs
    /\ pc = "rule"
    /\ ruleIdx = 1
    /\ entryIdx = 1
    /\ outbounds = <<>>
    /\ emitIdx = 1
    /\ loads = <<>>
    /\ jsonFiles = <<>>
    /\ compiles = <<>>
    /\ skips = <<>>
    /\ deduped = <<>>
    /\ fn = "none"
    /\ arg = <<>>
    /\ prev = "input"
    /\ ret = <<>>
    /\ verdict = FALSE

StartRuleAlwaysSet ==
    /\ pc = "rule"
    /\ ruleIdx <= Len(config)
    /\ outbounds' =
          IF Has(outbounds, Rule.outbound)
          THEN [outbounds EXCEPT ![IndexOf(outbounds, Rule.outbound)] =
                    [key |-> Rule.outbound, domains |-> <<>>, subnets |-> <<>>]]
          ELSE Append(outbounds, [key |-> Rule.outbound,
                                  domains |-> <<>>, subnets |-> <<>>])
    /\ pc' = "domains"
    /\ UNCHANGED <<config, ruleIdx, entryIdx, emitIdx, loads, jsonFiles,
                   compiles, skips, deduped, fnVars>>

\* the head of the first loop: the accumulator of rule.outbound is created
\* unless the Map has it
StartRule ==
    /\ pc = "rule"
    /\ ruleIdx <= Len(config)
    /\ outbounds' = IF Has(outbounds, Rule.outbound)
                    THEN outbounds
                    ELSE Append(outbounds, [key |-> Rule.outbound,
                                            domains |-> <<>>, subnets |-> <<>>])
    /\ pc' = "domains"
    /\ UNCHANGED <<config, ruleIdx, entryIdx, emitIdx, loads, jsonFiles,
                   compiles, skips, deduped, fnVars>>

\* if (rule.domains) { ... }: what the statement leaves behind
DomainsResult ==
    IF Rule.domains = <<>>
    THEN [outbounds |-> outbounds, loads |-> loads, pc |-> "subnets"]
    ELSE LET r == readLines(Rule.domains)
         IN  IF r.ok
             THEN [outbounds |-> PushDomains(outbounds, Rule.outbound,
                                     MapNormalizeDomainSuffix(r.lines)),
                   loads |-> Append(loads, Rule.domains),
                   pc |-> "subnets"]
             ELSE [outbounds |-> outbounds,
                   loads |-> Append(loads, Rule.domains),
                   pc |-> "rejected"]

Domains ==
    /\ pc = "domains"
    /\ outbounds' = DomainsResult.outbounds
    /\ loads' = DomainsResult.loads
    /\ pc' = DomainsResult.pc
    /\ UNCHANGED <<config, ruleIdx, entryIdx, emitIdx, jsonFiles, compiles,
                   skips, deduped, fnVars>>

\* if (rule.subnets) { ... }: what the statement leaves behind
SubnetsResult ==
    IF Rule.subnets = <<>>
    THEN [outbounds |-> outbounds, loads |-> loads, pc |-> "list"]
    ELSE LET r == readLines(Rule.subnets)
         IN  IF r.ok
             THEN [outbounds |-> PushSubnets(outbounds, Rule.outbound,
                                     MapNormalizeCidr(r.lines)),
                   loads |-> Append(loads, Rule.subnets),
                   pc |-> "list"]
             ELSE [outbounds |-> outbounds,
                   loads |-> Append(loads, Rule.subnets),
                   pc |-> "rejected"]

Subnets ==
    /\ pc = "subnets"
    /\ outbounds' = SubnetsResult.outbounds
    /\ loads' = SubnetsResult.loads
    /\ pc' = SubnetsResult.pc
    /\ entryIdx' = 1
    /\ UNCHANGED <<config, ruleIdx, emitIdx, jsonFiles, compiles, skips,
                   deduped, fnVars>>

IsSourceRefOrDotted(v) ==
    StartsWith(v, Http) \/ StartsWith(v, Https) \/ Includes(v, "/") \/ Includes(v, ".")

\* v.startsWith("http://") || v.startsWith("https://") || v.includes("/")
IsSourceRef(v) ==
    StartsWith(v, Http) \/ StartsWith(v, Https) \/ Includes(v, "/")

\* one turn of `for (const entry of rule.list)`: what it leaves behind
ListEntryResult ==
    LET v == Trim(Rule.list[entryIdx])
        i == IndexOf(outbounds, Rule.outbound)
    IN  IF v = <<>>
        THEN [outbounds |-> outbounds, loads |-> loads, pc |-> "list"]
        ELSE IF isIpOrCidr(v)
        THEN [outbounds |-> PushSubnets(outbounds, Rule.outbound,
                                        <<normalizeCidr(v)>>),
              loads |-> loads,
              pc |-> "list"]
        ELSE IF IsSourceRef(v)
        THEN LET r    == readLines(v)
                 data == AddMixedEntries(r.lines,
                             [domains |-> outbounds[i].domains,
                              subnets |-> outbounds[i].subnets])
             IN  IF r.ok
                 THEN [outbounds |-> [outbounds EXCEPT
                                         ![i].domains = data.domains,
                                         ![i].subnets = data.subnets],
                       loads |-> Append(loads, v),
                       pc |-> "list"]
                 ELSE [outbounds |-> outbounds,
                       loads |-> Append(loads, v),
                       pc |-> "rejected"]
        ELSE [outbounds |-> PushDomains(outbounds, Rule.outbound,
                                        <<normalizeDomainSuffix(v)>>),
              loads |-> loads,
              pc |-> "list"]

ListEntry ==
    /\ pc = "list"
    /\ entryIdx <= Len(Rule.list)
    /\ outbounds' = ListEntryResult.outbounds
    /\ loads' = ListEntryResult.loads
    /\ pc' = ListEntryResult.pc
    /\ entryIdx' = entryIdx + 1
    /\ UNCHANGED <<config, ruleIdx, emitIdx, jsonFiles, compiles, skips,
                   deduped, fnVars>>

\* rule.list is absent, empty or exhausted: on to the next rule
EndList ==
    /\ pc = "list"
    /\ entryIdx > Len(Rule.list)
    /\ ruleIdx' = ruleIdx + 1
    /\ pc' = "rule"
    /\ UNCHANGED <<config, entryIdx, outbounds, emitIdx, loads, jsonFiles,
                   compiles, skips, deduped, fnVars>>

\* the first loop is over: "Generating rule sets..."
EndRules ==
    /\ pc = "rule"
    /\ ruleIdx > Len(config)
    /\ pc' = "emit"
    /\ emitIdx' = 1
    /\ UNCHANGED <<config, ruleIdx, entryIdx, outbounds, loads, jsonFiles,
                   compiles, skips, deduped, fnVars>>

\* the head of the second loop: the lists of the next Map entry are
\* deduplicated
Deduplicate ==
    /\ pc = "emit"
    /\ emitIdx <= Len(outbounds)
    /\ outbounds' = [outbounds EXCEPT
                        ![emitIdx].domains = Dedupe(@),
                        ![emitIdx].subnets = Dedupe(@)]
    /\ deduped' = Append(deduped, outbounds[emitIdx].key)
    /\ pc' = "generate"
    /\ UNCHANGED <<config, ruleIdx, entryIdx, emitIdx, loads, jsonFiles,
                   compiles, skips, fnVars>>

RuleBlocksUnfiltered(data) ==
    <<[kind |-> "domain_suffix", values |-> data.domains],
      [kind |-> "ip_cidr", values |-> data.subnets]>>

\* the rules of the document generateSrs builds from data
RuleBlocks(data) ==
    (IF Len(data.domains) > 0
     THEN <<[kind |-> "domain_suffix", values |-> data.domains]>>
     ELSE <<>>)
    \o
    (IF Len(data.subnets) > 0
     THEN <<[kind |-> "ip_cidr", values |-> data.subnets]>>
     ELSE <<>>)

\* generateSrs up to the document: a skip, or the JSON file written
GenerateSrs ==
    /\ pc = "generate"
    /\ skips' = IF Len(RuleBlocks(outbounds[emitIdx])) = 0
                THEN Append(skips, outbounds[emitIdx].key)
                ELSE skips
    /\ jsonFiles' = IF Len(RuleBlocks(outbounds[emitIdx])) = 0
                    THEN jsonFiles
                    ELSE Append(jsonFiles,
                             [name |-> outbounds[emitIdx].key,
                              ruleSet |-> [version |-> 3,
                                           rules |-> RuleBlocks(outbounds[emitIdx])]])
    /\ emitIdx' = IF Len(RuleBlocks(outbounds[emitIdx])) = 0
                  THEN emitIdx + 1 ELSE emitIdx
    /\ pc' = IF Len(RuleBlocks(outbounds[emitIdx])) = 0 THEN "emit" ELSE "compile"
    /\ UNCHANGED <<config, ruleIdx, entryIdx, outbounds, loads, compiles,
                   deduped, fnVars>>

CompileRethrows ==
    /\ pc = "compile"
    /\ \E ok \in BOOLEAN :
          /\ compiles' = Append(compiles, [name |-> outbounds[emitIdx].key, ok |-> ok])
          /\ emitIdx' = IF ok THEN emitIdx + 1 ELSE emitIdx
          /\ pc' = IF ok THEN "emit" ELSE "rejected"
    /\ UNCHANGED <<config, ruleIdx, entryIdx, outbounds, loads, jsonFiles,
                   skips, deduped, fnVars>>

\* try { await $`sing-box rule-set compile ...` } catch { console.error }
Compile ==
    /\ pc = "compile"
    /\ \E ok \in BOOLEAN :
          compiles' = Append(compiles, [name |-> outbounds[emitIdx].key, ok |-> ok])
    /\ emitIdx' = emitIdx + 1
    /\ pc' = "emit"
    /\ UNCHANGED <<config, ruleIdx, entryIdx, outbounds, loads, jsonFiles,
                   skips, deduped, fnVars>>

\* the second loop is over: "Done!"
Done ==
    /\ pc = "emit"
    /\ emitIdx > Len(outbounds)
    /\ pc' = "done"
    /\ UNCHANGED <<config, ruleIdx, entryIdx, outbounds, emitIdx, loads,
                   jsonFiles, compiles, skips, deduped, fnVars>>

\* main().catch(console.error): the rejection of readLines ends the run
Catch ==
    /\ pc = "rejected"
    /\ pc' = "aborted"
    /\ UNCHANGED <<config, ruleIdx, entryIdx, outbounds, emitIdx, loads,
                   jsonFiles, compiles, skips, deduped, fnVars>>

Next ==
    \/ StartRule
    \/ Domains
    \/ Subnets
    \/ ListEntry
    \/ EndList
    \/ EndRules
    \/ Deduplicate
    \/ GenerateSrs
    \/ Compile
    \/ Done
    \/ Catch

Spec == Init /\ [][Next]_vars

-----------------------------------------------------------------------------
(* Calls of the pure functions on tokens drawn from bounded sets. *)

DomainAlphabet == {"*", ".", " ", "a", "B"}
TailAlphabet == {"/", "1", "3", "x"}
AddressPool ==
    {<<>>, Ip4, Ip6, DomPlain,
     <<"3", "0", "0", ".", "1", ".", "1", ".", "1">>,     \* "300.1.1.1"
     <<"1", ".", "1", ".", "1">>}                         \* "1.1.1"

Inputs ==
    SeqsUpTo(DomainAlphabet, MaxDomainLen)
        \cup {a \o t : a \in AddressPool, t \in SeqsUpTo(TailAlphabet, MaxTailLen)}

InitFn ==
    /\ config = <<>>
    /\ pc = "idle"
    /\ ruleIdx = 1
    /\ entryIdx = 1
    /\ outbounds = <<>>
    /\ emitIdx = 1
    /\ loads = <<>>
    /\ jsonFiles = <<>>
    /\ compiles = <<>>
    /\ skips = <<>>
    /\ deduped = <<>>
    /\ fn = "none"
    /\ arg \in Inputs
    /\ prev = "input"
    /\ ret = <<>>
    /\ verdict = FALSE

CallIsIpOrCidr ==
    /\ fn = "none"
    /\ fn' = "isIpOrCidr"
    /\ verdict' = isIpOrCidr(arg)
    /\ UNCHANGED <<arg, prev, ret, mainVars>>

CallNormalizeDomainSuffix ==
    /\ fn = "none"
    /\ fn' = "normalizeDomainSuffix"
    /\ ret' = normalizeDomainSuffix(arg)
    /\ UNCHANGED <<arg, prev, verdict, mainVars>>

CallNormalizeCidr ==
    /\ fn = "none"
    /\ fn' = "normalizeCidr"
    /\ ret' = normalizeCidr(arg)
    /\ UNCHANGED <<arg, prev, verdict, mainVars>>

\* the result of a normalizer is given to a function again
Reapply ==
    /\ fn \in {"normalizeDomainSuffix", "normalizeCidr"}
    /\ arg' = ret
    /\ prev' = fn
    /\ fn' = "none"
    /\ ret' = <<>>
    /\ UNCHANGED <<verdict, mainVars>>

NextFn ==
    \/ CallIsIpOrCidr
    \/ CallNormalizeDomainSuffix
    \/ CallNormalizeCidr
    \/ Reapply

SpecFn == InitFn /\ [][NextFn]_vars

-----------------------------------------------------------------------------
(* Claims about the pure functions, under SpecFn. *)

\* the text after the first "/" of s (empty when there is none)
AfterFirstSlash(s) ==
    IF ~Includes(s, "/") THEN <<>>
    ELSE LET i == CHOOSE k \in 1..Len(s) :
                      s[k] = "/" /\ \A j \in 1..(k - 1) : s[j] # "/"
         IN  SubSeq(s, i + 1, Len(s))

\* C1: isIpOrCidr returns false for every token whose prefix part, all the
\* text after the first "/", is non-empty and not made only of decimal
\* digits, whatever the address is.
C1_NonNumericPrefixRejected ==
    (/\ fn = "isIpOrCidr"
     /\ AfterFirstSlash(Trim(arg)) # <<>>
     /\ ~IsDigits(AfterFirstSlash(Trim(arg))))
        => verdict = FALSE

\* C2: normalizeDomainSuffix is idempotent: applied to one of its own
\* results it returns that result unchanged.
C2_NormalizeDomainSuffixIdempotent ==
    (fn = "normalizeDomainSuffix" /\ prev = "normalizeDomainSuffix")
        => ret = arg

-----------------------------------------------------------------------------
(* Claims about the run of main(), under Spec. *)

ToSet(xs) == {xs[i] : i \in 1..Len(xs)}

NoRepeat(xs) == \A i, j \in 1..Len(xs) : xs[i] = xs[j] => i = j

\* the accumulators as the emitter and the claims see them
AllSubnets == UNION {ToSet(outbounds[i].subnets) : i \in 1..Len(outbounds)}
AllDomains == UNION {ToSet(outbounds[i].domains) : i \in 1..Len(outbounds)}

\* a "/" followed by at least one character
HasSlashAndPrefix(s) == \E k \in 1..(Len(s) - 1) : s[k] = "/"

\* C3 as stated: every element of every accumulator's subnets is in CIDR
\* form, a "/" followed by a prefix, whichever channel it came through.
C3_SubnetsAlwaysCidr ==
    \A e \in AllSubnets : HasSlashAndPrefix(e)

\* the elements of xs from place n + 1 on
Added(old, new) == SubSeq(new, Len(old) + 1, Len(new))

\* C3 as amended: every element of subnets contains a "/" unless it is
\* neither an IPv4 nor an IPv6 address (a malformed line of a subnets source,
\* passed through), and every element appended while a mixed list is
\* processed (a literal entry or a line of a nested list) contains a "/".
C3_SubnetsCidrOrPassedThrough ==
    /\ [](\A e \in AllSubnets : Includes(e, "/") \/ (~isIPv4(e) /\ ~isIPv6(e)))
    /\ [][pc = "list" =>
            \A i \in 1..Len(outbounds) :
                \A e \in ToSet(Added(outbounds[i].subnets, outbounds'[i].subnets)) :
                    Includes(e, "/")]_vars

\* a finished run holding a passed-through subnets line, a host address
\* given its /32 and an element that came through a nested list
C3_Witness ==
    /\ pc = "done"
    /\ \E i \in 1..Len(outbounds) :
          /\ DomPlain \in ToSet(outbounds[i].subnets)
          /\ (Ip4 \o <<"/", "3", "2">>) \in ToSet(outbounds[i].subnets)
          /\ (Ip4Other \o <<"/", "3", "2">>) \in ToSet(outbounds[i].subnets)

\* what one mixed token adds to domains, and to subnets
TokenDomains(t) ==
    IF Trim(t) # <<>> /\ ~isIpOrCidr(Trim(t))
    THEN {normalizeDomainSuffix(Trim(t))} ELSE {}
TokenSubnets(t) ==
    IF Trim(t) # <<>> /\ isIpOrCidr(Trim(t))
    THEN {normalizeCidr(Trim(t))} ELSE {}

\* the accumulator of the rule being processed
Current == outbounds[IndexOf(outbounds, Rule.outbound)]
CurrentNext == outbounds'[IndexOf(outbounds, Rule.outbound)]

\* every accumulator but the current rule's is left alone
OthersUnchanged ==
    /\ Len(outbounds') = Len(outbounds)
    /\ \A i \in 1..Len(outbounds) :
          i # IndexOf(outbounds, Rule.outbound) => outbounds'[i] = outbounds[i]

\* C4: each entry of a mixed list is handled by exactly one branch, first
\* match in this order: blank, no effect; an IP/CIDR, one normalized CIDR
\* appended to subnets and no load; an entry that starts with http:// or
\* https:// or contains "/", one load and nothing appended for the entry
\* itself; otherwise one normalized domain suffix appended to domains and no
\* load.  A non-IP entry with no "/" never triggers a load.
C4_MixedEntryBranches ==
    [][(pc = "list" /\ entryIdx <= Len(Rule.list)) =>
        LET v == Trim(Rule.list[entryIdx])
        IN  /\ OthersUnchanged
            /\ CASE v = <<>> ->
                      /\ CurrentNext = Current
                      /\ loads' = loads
                 [] v # <<>> /\ isIpOrCidr(v) ->
                      /\ CurrentNext.subnets = Append(Current.subnets, normalizeCidr(v))
                      /\ CurrentNext.domains = Current.domains
                      /\ loads' = loads
                 [] v # <<>> /\ ~isIpOrCidr(v)
                        /\ (StartsWith(v, Http) \/ StartsWith(v, Https)
                               \/ Includes(v, "/")) ->
                      /\ loads' = Append(loads, v)
                      /\ ToSet(Added(Current.domains, CurrentNext.domains))
                           = UNION {TokenDomains(l) : l \in ToSet(readLines(v).lines)}
                      /\ ToSet(Added(Current.subnets, CurrentNext.subnets))
                           = UNION {TokenSubnets(l) : l \in ToSet(readLines(v).lines)}
                      /\ Len(CurrentNext.domains) + Len(CurrentNext.subnets)
                           = Len(Current.domains) + Len(Current.subnets)
                               + Len(readLines(v).lines)
                 [] OTHER ->
                      /\ CurrentNext.domains =
                             Append(Current.domains, normalizeDomainSuffix(v))
                      /\ CurrentNext.subnets = Current.subnets
                      /\ loads' = loads
            /\ (~isIpOrCidr(v) /\ ~Includes(v, "/")) => loads' = loads]_vars

\* the list with a blank entry, an address, a domain, a nested file and a URL
\* has been walked to its end
C4_Witness ==
    /\ pc = "list"
    /\ Rule.list = ListNested
    /\ entryIdx = Len(ListNested) + 1
    /\ loads # <<>>
    /\ Current.domains # <<>>
    /\ Current.subnets # <<>>

\* a list entry that names a nested source
IsNestedRef(e) ==
    /\ Trim(e) # <<>>
    /\ ~isIpOrCidr(Trim(e))
    /\ Includes(Trim(e), "/")

\* the contribution of one declaration, as sets
DomainsOf(rule) ==
    (IF rule.domains # <<>>
     THEN {normalizeDomainSuffix(l) : l \in ToSet(readLines(rule.domains).lines)}
     ELSE {})
    \cup UNION {IF IsNestedRef(e)
                THEN UNION {TokenDomains(l) : l \in ToSet(readLines(Trim(e)).lines)}
                ELSE TokenDomains(e) : e \in ToSet(rule.list)}
SubnetsOf(rule) ==
    (IF rule.subnets # <<>>
     THEN {normalizeCidr(l) : l \in ToSet(readLines(rule.subnets).lines)}
     ELSE {})
    \cup UNION {IF IsNestedRef(e)
                THEN UNION {TokenSubnets(l) : l \in ToSet(readLines(Trim(e)).lines)}
                ELSE TokenSubnets(e) : e \in ToSet(rule.list)}

RulesOf(key) == {i \in 1..Len(config) : config[i].outbound = key}

\* C5: the final deduplicated set of domains and of subnets of every
\* outbound is the union of the contributions of all declarations whose key
\* is that outbound, whatever the order of the declarations in the config.
C5_FinalSetsAreUnionOfContributions ==
    pc = "done" =>
        \A key \in OutboundKeys :
            /\ Has(outbounds, key) <=> RulesOf(key) # {}
            /\ Has(outbounds, key) =>
                  LET data == outbounds[IndexOf(outbounds, key)]
                  IN  /\ ToSet(data.domains)
                            = UNION {DomainsOf(config[i]) : i \in RulesOf(key)}
                      /\ ToSet(data.subnets)
                            = UNION {SubnetsOf(config[i]) : i \in RulesOf(key)}

\* a finished run of two different declarations of one outbound, each
\* adding something the other does not
C5_Witness ==
    /\ pc = "done"
    /\ Len(config) = 2
    /\ config[1].outbound = config[2].outbound
    /\ DomainsOf(config[1]) \ DomainsOf(config[2]) # {}
    /\ SubnetsOf(config[2]) \ SubnetsOf(config[1]) # {}

\* every source a declaration names can be loaded
LoadsSucceed(rule) ==
    /\ rule.domains # <<>> => readLines(rule.domains).ok
    /\ rule.subnets # <<>> => readLines(rule.subnets).ok
    /\ \A e \in ToSet(rule.list) : IsNestedRef(e) => readLines(Trim(e)).ok

HasDocument(key) == \E j \in 1..Len(jsonFiles) : jsonFiles[j].name = key

\* C6: a failed load in one declaration does not keep the other outbounds
\* from completing: when the run has ended, every outbound whose own
\* declarations all loaded and yielded at least one entry has its document.
C6_LoadFailureIsolated ==
    pc \in {"done", "aborted"} =>
        \A key \in OutboundKeys :
            (/\ RulesOf(key) # {}
             /\ \A i \in RulesOf(key) : LoadsSucceed(config[i])
             /\ \E i \in RulesOf(key) :
                   DomainsOf(config[i]) \cup SubnetsOf(config[i]) # {})
                => HasDocument(key)

HasCompile(key) == \E j \in 1..Len(compiles) : compiles[j].name = key

NonEmpty(data) == data.domains # <<>> \/ data.subnets # <<>>

EmissionPhase == {"emit", "generate", "compile", "done"}

\* the steps the second loop has left at most: three per accumulator not
\* yet emitted, less those taken for the current one, and the last step to
\* "Done!"
EmitRank ==
    IF pc \notin EmissionPhase THEN -1
    ELSE IF pc = "done" THEN 0
    ELSE 3 * (Len(outbounds) - emitIdx + 1) + 1
           - (CASE pc = "emit" -> 0 [] pc = "generate" -> 1 [] pc = "compile" -> 2)

\* C7: a failure of the compiler for one outbound is not fatal: the
\* documents written stay written, the run is not aborted, every non-empty
\* outbound has its document and its compiler invocation when the run ends,
\* and the run reaches its normal end (each step of the second loop lowers
\* the count of the steps left, which is at least 1 until "Done!").
C7_CompileFailureNonFatal ==
    /\ [][SubSeq(jsonFiles', 1, Len(jsonFiles)) = jsonFiles]_vars
    /\ [](\A j \in 1..Len(compiles) : HasDocument(compiles[j].name))
    /\ []((\E j \in 1..Len(compiles) : ~compiles[j].ok) => pc \in EmissionPhase)
    /\ [](pc = "done" =>
            \A i \in 1..Len(outbounds) :
                NonEmpty(outbounds[i]) =>
                    HasDocument(outbounds[i].key) /\ HasCompile(outbounds[i].key))
    /\ []((pc \in EmissionPhase /\ pc # "done") => EmitRank >= 1)
    /\ [][(pc \in EmissionPhase) => EmitRank' < EmitRank]_vars

\* a finished run whose first compiler invocation failed and whose second
\* outbound was compiled all the same
C7_Witness ==
    /\ pc = "done"
    /\ Len(compiles) = 2
    /\ ~compiles[1].ok
    /\ compiles[2].ok
    /\ Len(jsonFiles) = 2

KindsOf(rules) == [b \in 1..Len(rules) |-> rules[b].kind]

\* C8: for every finalized accumulator the emitter writes a document and
\* invokes the compiler if and only if domains or subnets is non-empty, and
\* reports a skip otherwise; a written document has version 3 and holds only
\* non-empty blocks, domain_suffix before ip_cidr, at most one of each.
C8_EmitIffNonEmpty ==
    /\ \A i \in 1..Len(outbounds) :
          LET data == outbounds[i]
          IN  /\ i < emitIdx =>
                    /\ HasDocument(data.key) <=> NonEmpty(data)
                    /\ HasCompile(data.key) <=> NonEmpty(data)
                    /\ data.key \in ToSet(skips) <=> ~NonEmpty(data)
              /\ i >= emitIdx =>
                    /\ HasDocument(data.key) => (i = emitIdx /\ pc = "compile")
                    /\ ~HasCompile(data.key)
                    /\ data.key \notin ToSet(skips)
    /\ \A j \in 1..Len(jsonFiles) :
          LET ruleSet == jsonFiles[j].ruleSet
          IN  /\ ruleSet.version = 3
              /\ \/ KindsOf(ruleSet.rules) = <<"domain_suffix">>
                 \/ KindsOf(ruleSet.rules) = <<"ip_cidr">>
                 \/ KindsOf(ruleSet.rules) = <<"domain_suffix", "ip_cidr">>
              /\ \A b \in 1..Len(ruleSet.rules) : ruleSet.rules[b].values # <<>>

\* a finished run with one outbound skipped and one document of two blocks
C8_Witness ==
    /\ pc = "done"
    /\ skips # <<>>
    /\ \E j \in 1..Len(jsonFiles) : Len(jsonFiles[j].ruleSet.rules) = 2

\* the rules the first loop has entered
Started ==
    IF pc = "rule" THEN ruleIdx - 1
    ELSE IF ruleIdx > Len(config) THEN Len(config) ELSE ruleIdx

KeysOf(map) == [i \in 1..Len(map) |-> map[i].key]

EmissionBegun ==
    deduped # <<>> \/ jsonFiles # <<>> \/ skips # <<>> \/ compiles # <<>>

\* C9: an accumulator is created on the first declaration that references
\* its key and is deduplicated exactly once, after all declarations have been
\* processed and before its emission; no declaration appends to any
\* accumulator once a deduplication or emission step has happened; the lists
\* handed to the emitter hold no repeated element.
C9_DedupOnceAfterAllRules ==
    /\ [](/\ NoRepeat(KeysOf(outbounds))
          /\ ToSet(KeysOf(outbounds)) = {config[i].outbound : i \in 1..Started}
          /\ NoRepeat(deduped)
          /\ EmissionBegun => (ruleIdx > Len(config) /\ pc \in EmissionPhase)
          /\ {jsonFiles[j].name : j \in 1..Len(jsonFiles)} \subseteq ToSet(deduped)
          /\ {compiles[j].name : j \in 1..Len(compiles)} \subseteq ToSet(deduped)
          /\ ToSet(skips) \subseteq ToSet(deduped)
          /\ pc = "done" => ToSet(deduped) = ToSet(KeysOf(outbounds))
          /\ pc = "generate" =>
                 /\ NoRepeat(outbounds[emitIdx].domains)
                 /\ NoRepeat(outbounds[emitIdx].subnets)
          /\ \A j \in 1..Len(jsonFiles) :
                 \A b \in 1..Len(jsonFiles[j].ruleSet.rules) :
                     NoRepeat(jsonFiles[j].ruleSet.rules[b].values))
    /\ [][\A key \in OutboundKeys :
             (~Has(outbounds, key) /\ Has(outbounds', key)) =>
                 (/\ pc = "rule"
                  /\ Rule.outbound = key
                  /\ \A i \in 1..(ruleIdx - 1) : config[i].outbound # key)]_vars
    /\ [][EmissionBegun =>
             /\ Len(outbounds') = Len(outbounds)
             /\ \A i \in 1..Len(outbounds) :
                   /\ ToSet(outbounds'[i].domains) = ToSet(outbounds[i].domains)
                   /\ ToSet(outbounds'[i].subnets) = ToSet(outbounds[i].subnets)]_vars

\* two outbounds deduplicated, the second handed to the emitter after the
\* domains file, whose three lines normalize to one suffix, was merged in
C9_Witness ==
    /\ pc = "generate"
    /\ Len(deduped) = 2
    /\ SrcDomains \in ToSet(loads)
    /\ \E i \in 1..Len(outbounds) : outbounds[i].domains = <<DomPlain>>

RECURSIVE SourceCount(_)
SourceCount(rules) ==
    IF rules = <<>> THEN 0
    ELSE (IF Head(rules).domains # <<>> THEN 1 ELSE 0)
         + (IF Head(rules).subnets # <<>> THEN 1 ELSE 0)
         + Len(Head(rules).list)
         + SourceCount(Tail(rules))

DeclarationPhase == {"rule", "domains", "subnets", "list"}

\* the longest rule.list of the config
LongestList ==
    IF config = <<>> THEN 0
    ELSE LET n == CHOOSE m \in {Len(config[i].list) : i \in 1..Len(config)} :
                      \A i \in 1..Len(config) : Len(config[i].list) <= m
         IN  n

\* the steps the first loop has left at most: four and an entry's worth per
\* rule not yet finished, less those taken in the current rule; -1 once the
\* loop is over
DeclarationRank ==
    IF pc \notin DeclarationPhase THEN -1
    ELSE (LongestList + 4) * (Len(config) - ruleIdx + 1)
           - (CASE pc = "rule" -> 0
                [] pc = "domains" -> 1
                [] pc = "subnets" -> 2
                [] pc = "list" -> 2 + entryIdx)

\* C10: nesting is one level deep: a line of a nested source never triggers
\* a load, also when it starts with http:// or contains "/", and each such
\* line appends exactly one element to domains or subnets; the loads of a run
\* are at most the domains sources plus the subnets sources plus the
\* mixed-list entries; the declaration phase ends, also when a nested list
\* names itself (each step of the first loop lowers the count of the steps
\* left, which never falls below 0 while the loop runs).
C10_NestingOneLevel ==
    /\ [](Len(loads) <= SourceCount(config))
    /\ [][(pc = "list" /\ entryIdx <= Len(Rule.list) /\ loads' # loads) =>
             LET v == Trim(Rule.list[entryIdx])
             IN  /\ loads' = Append(loads, v)
                 /\ Len(CurrentNext.domains) + Len(CurrentNext.subnets)
                      = Len(Current.domains) + Len(Current.subnets)
                          + Len(readLines(v).lines)]_vars
    /\ [](pc \in DeclarationPhase => DeclarationRank >= 0)
    /\ [][(pc \in DeclarationPhase) => DeclarationRank' < DeclarationRank]_vars

\* a finished run that loaded the nested file once: its line naming the
\* file itself and its line naming a URL ended up among the domains
C10_Witness ==
    /\ pc = "done"
    /\ loads = <<SrcMixed, UrlMixed>>
    /\ <<"/", "m">> \in AllDomains
    /\ UrlMixed \in AllDomains

=============================================================================
